---- MODULE Spec2Model ----
(***************************************************************************)
(* A model of the ethereum_hashing crate: the SHA-256 dispatch layer       *)
(* (DynamicImpl / DynamicContext over the sha2 and ring backends), the     *)
(* cpufeatures latch behind have_sha_extensions(), hash32_concat and the   *)
(* lazily built ZERO_HASHES table.                                         *)
(*                                                                         *)
(* The crate does not implement the SHA-256 transform: it calls the sha2   *)
(* and ring crates.  Those calls are modelled by the FIPS 180-4 algorithm  *)
(* as a streaming context (block buffer, chaining value, byte count).      *)
(* A 32-bit word is a pair <<hi, lo>> of 16-bit halves, every operation    *)
(* is taken modulo 2^32.                                                   *)
(***************************************************************************)
EXTENDS Integers, Sequences, FiniteSets, TLC

(***************************************************************************)
(* 32-bit word arithmetic on <<hi, lo>> pairs                              *)
(***************************************************************************)
Pow2(n) == 2 ^ n

\* Bit i of a.
Bit(a, i) == (a \div Pow2(i)) % 2

\* Bitwise exclusive or, and bitwise and, of two 4-bit values.
XorNibble(a, b) ==
  ((Bit(a, 0) + Bit(b, 0)) % 2) + 2 * ((Bit(a, 1) + Bit(b, 1)) % 2)
  + 4 * ((Bit(a, 2) + Bit(b, 2)) % 2) + 8 * ((Bit(a, 3) + Bit(b, 3)) % 2)

AndNibble(a, b) ==
  (Bit(a, 0) * Bit(b, 0)) + 2 * (Bit(a, 1) * Bit(b, 1))
  + 4 * (Bit(a, 2) * Bit(b, 2)) + 8 * (Bit(a, 3) * Bit(b, 3))

\* Lookup tables, materialised once as sequences: entry [a + 1][b + 1] is the
\* bitwise combination of the 4-bit values a and b.
XorTab == <<>> \o [a \in 1..16 |-> <<>> \o [b \in 1..16 |-> XorNibble(a - 1, b - 1)]]

AndTab == <<>> \o [a \in 1..16 |-> <<>> \o [b \in 1..16 |-> AndNibble(a - 1, b - 1)]]

\* The tabulated operation on two 16-bit values, four bits at a time.
Bitwise16(tab, a, b) ==
  tab[(a % 16) + 1][(b % 16) + 1]
  + 16 * tab[((a \div 16) % 16) + 1][((b \div 16) % 16) + 1]
  + 256 * tab[((a \div 256) % 16) + 1][((b \div 256) % 16) + 1]
  + 4096 * tab[(a \div 4096) + 1][(b \div 4096) + 1]

\* The tabulated operation on two words.
Bitwise(tab, a, b) == <<Bitwise16(tab, a[1], b[1]), Bitwise16(tab, a[2], b[2])>>

Xor(a, b) == Bitwise(XorTab, a, b)

And(a, b) == Bitwise(AndTab, a, b)

Not(a) == <<65535 - a[1], 65535 - a[2]>>

\* Wrapping addition modulo 2^32.
Add(a, b) ==
  LET lo == a[2] + b[2]
  IN  <<(a[1] + b[1] + lo \div 65536) % 65536, lo % 65536>>

\* Rotate right by n, 0 <= n < 32.
ROTR(w, n) ==
  LET v == IF n >= 16 THEN <<w[2], w[1]>> ELSE w
      m == IF n >= 16 THEN n - 16 ELSE n
  IN  <<(v[1] \div Pow2(m)) + (v[2] % Pow2(m)) * Pow2(16 - m),
        (v[2] \div Pow2(m)) + (v[1] % Pow2(m)) * Pow2(16 - m)>>

\* Shift right by n, 0 <= n < 16.
SHR(w, n) ==
  <<w[1] \div Pow2(n), (w[2] \div Pow2(n)) + (w[1] % Pow2(n)) * Pow2(16 - n)>>

(***************************************************************************)
(* FIPS 180-4 SHA-256: functions, constants, compression, padding          *)
(***************************************************************************)
Ch(x, y, z) == Xor(And(x, y), And(Not(x), z))

Maj(x, y, z) == Xor(Xor(And(x, y), And(x, z)), And(y, z))

BSIG0(x) == Xor(Xor(ROTR(x, 2), ROTR(x, 13)), ROTR(x, 22))

BSIG1(x) == Xor(Xor(ROTR(x, 6), ROTR(x, 11)), ROTR(x, 25))

SSIG0(x) == Xor(Xor(ROTR(x, 7), ROTR(x, 18)), SHR(x, 3))

SSIG1(x) == Xor(Xor(ROTR(x, 17), ROTR(x, 19)), SHR(x, 10))

K ==
  <<
     <<17034, 12184>>, <<28983, 17553>>, <<46528, 64463>>, <<59829, 56229>>,
     <<14678, 49755>>, <<23025, 4593>>, <<37439, 33444>>, <<43804, 24277>>,
     <<55303, 43672>>, <<4739, 23297>>, <<9265, 34238>>, <<21772, 32195>>,
     <<29374, 23924>>, <<32990, 45566>>, <<39900, 1703>>, <<49563, 61812>>,
     <<58523, 27073>>, <<61374, 18310>>, <<4033, 40390>>, <<9228, 41420>>,
     <<11753, 11375>>, <<19060, 33962>>, <<23728, 43484>>, <<30457, 35034>>,
     <<38974, 20818>>, <<43057, 50797>>, <<45059, 10184>>, <<48985, 32711>>,
     <<50912, 3059>>, <<54695, 37191>>, <<1738, 25425>>, <<5161, 10599>>,
     <<10167, 2693>>, <<11803, 8504>>, <<19756, 28156>>, <<21304, 3347>>,
     <<25866, 29524>>, <<30314, 2747>>, <<33218, 51502>>, <<37490, 11397>>,
     <<41663, 59553>>, <<43034, 26187>>, <<49739, 35696>>, <<51052, 20899>>,
     <<53650, 59417>>, <<54937, 1572>>, <<62478, 13701>>, <<4202, 41072>>,
     <<6564, 49430>>, <<7735, 27656>>, <<10056, 30540>>, <<13488, 48309>>,
     <<14620, 3251>>, <<20184, 43594>>, <<23452, 51791>>, <<26670, 28659>>,
     <<29839, 33518>>, <<30885, 25455>>, <<33992, 30740>>, <<36039, 520>>,
     <<37054, 65530>>, <<42064, 27883>>, <<48889, 41975>>, <<50801, 30962>>
  >>

H0 ==
  <<
     <<27145, 58983>>, <<47975, 44677>>, <<15470, 62322>>, <<42319, 62778>>,
     <<20750, 21119>>, <<39685, 26764>>, <<8067, 55723>>, <<23520, 52505>>
  >>

\* Big-endian word of four bytes starting at position p of bs.
WordAt(bs, p) == <<bs[p] * 256 + bs[p + 1], bs[p + 2] * 256 + bs[p + 3]>>

\* Big-endian bytes of a word.
WordBytes(w) == <<w[1] \div 256, w[1] % 256, w[2] \div 256, w[2] % 256>>

RECURSIVE Schedule(_)
\* The message schedule: W grows from the 16 words of the block to 64 words.
Schedule(W) ==
  IF Len(W) >= 64 THEN W
  ELSE LET t == Len(W) + 1
       IN  Schedule(Append(W, Add(Add(SSIG1(W[t - 2]), W[t - 7]),
                                  Add(SSIG0(W[t - 15]), W[t - 16]))))

\* The working variables after a round, from T1, T2 and the old ones.
Shift(T1, T2, w) == <<Add(T1, T2), w[1], w[2], w[3], Add(w[4], T1), w[5], w[6], w[7]>>

\* One round on the working variables v.w = <<a, b, c, d, e, f, g, h>>;
\* v.t counts the rounds done.
Round(v, W) ==
  [t |-> v.t + 1,
   w |-> Shift(Add(Add(Add(v.w[8], BSIG1(v.w[5])),
                       Add(Ch(v.w[5], v.w[6], v.w[7]), K[v.t + 1])), W[v.t + 1]),
               Add(BSIG0(v.w[1]), Maj(v.w[1], v.w[2], v.w[3])),
               v.w)]

RECURSIVE Rounds(_, _)
\* The working variables after all 64 rounds.
Rounds(v, W) == IF v.t >= 64 THEN v.w ELSE Rounds(Round(v, W), W)

\* One application of the compression function to a 64-byte block.
Compress(st, block) ==
  LET W == Schedule([i \in 1..16 |-> WordAt(block, 4 * i - 3)])
      v == Rounds([t |-> 0, w |-> st], W)
  IN  <<Add(st[1], v[1]), Add(st[2], v[2]), Add(st[3], v[3]), Add(st[4], v[4]),
        Add(st[5], v[5]), Add(st[6], v[6]), Add(st[7], v[7]), Add(st[8], v[8])>>

Zeros(n) == [i \in 1..n |-> 0]

\* The 64-bit big-endian bit length of a message of n bytes (n < 2^20).
LengthBytes(n) ==
  LET bits == 8 * n
  IN  <<0, 0, 0, 0, 0, (bits \div 65536) % 256, (bits \div 256) % 256, bits % 256>>

\* Padding appended to a message of n bytes: 0x80, zeros up to 56 mod 64, length.
Padding(n) == <<128>> \o Zeros((119 - (n % 64)) % 64) \o LengthBytes(n)

RECURSIVE Fold(_, _)
\* The chaining value after compressing every whole block of bs.
Fold(st, bs) ==
  IF Len(bs) < 64 THEN st
  ELSE Fold(Compress(st, SubSeq(bs, 1, 64)), SubSeq(bs, 65, Len(bs)))

\* Big-endian serialisation of the eight state words: the 32-byte digest.
DigestBytes(st) ==
  WordBytes(st[1]) \o WordBytes(st[2]) \o WordBytes(st[3]) \o WordBytes(st[4]) \o
  WordBytes(st[5]) \o WordBytes(st[6]) \o WordBytes(st[7]) \o WordBytes(st[8])

\* The reference digest: pad the whole message, compress block by block.
SHA256(msg) == DigestBytes(Fold(H0, msg \o Padding(Len(msg))))

(***************************************************************************)
(* The streaming context of the sha2 and ring crates (sha2::Sha256,        *)
(* ring::digest::Context): chaining value, buffered partial block, number  *)
(* of bytes already compressed.                                            *)
(***************************************************************************)
LibNew == [st |-> H0, pending |-> <<>>, completed |-> 0]

\* Buffer the bytes; compress every whole 64-byte block, keep the rest.
LibUpdate(c, bytes) ==
  LET all == c.pending \o bytes
      n   == (Len(all) \div 64) * 64
  IN  [st        |-> Fold(c.st, SubSeq(all, 1, n)),
       pending   |-> SubSeq(all, n + 1, Len(all)),
       completed |-> c.completed + n]

\* Pad the buffered rest with the total length, compress, serialise.
LibFinish(c) ==
  DigestBytes(Fold(c.st, c.pending \o Padding(c.completed + Len(c.pending))))

\* The crates' one-shot digest: a fresh context, one update, finish.
LibDigest(input) == LibFinish(LibUpdate(LibNew, input))

(***************************************************************************)
(* Program constants                                                       *)
(***************************************************************************)
HASH_LEN == 32

ZERO_HASHES_MAX_INDEX == 48

\* cpufeatures: the latch's value before the first detection (u8::MAX).
UNINIT == 255

(***************************************************************************)
(* Bounds of the model                                                     *)
(***************************************************************************)
NThreads == 2

MaxCalls == 3

MaxBlocks == 2

MaxChunks == 3

MaxOver == 2

Threads == 1..NThreads

\* A message of n bytes.
Msg(n) == [i \in 1..n |-> (37 * i + n) % 256]

HelloWorld == <<104, 101, 108, 108, 111, 32, 119, 111, 114, 108, 100>>

\* The expected digest of b"hello world" in the crate's tests.
HelloWorldDigest ==
  <<185, 77, 39, 185, 147, 77, 62, 8, 165, 46, 82, 215, 218, 125, 171, 250,
    196, 132, 239, 227, 122, 83, 128, 238, 144, 136, 247, 172, 226, 239, 205, 233>>

\* Input lengths: empty, short, the padding boundary (55, 56) and one below,
\* at and one above every block boundary up to MaxBlocks blocks.
InputLens ==
  {0, 1, 55, 56} \cup {64 * k + d : k \in 1..MaxBlocks, d \in {-1, 0, 1}}

Inputs == {HelloWorld} \cup {Msg(n) : n \in InputLens}

\* Chunks fed to a streaming context; 6 + 53 + 5 bytes fill one block exactly.
Chunks == {<<>>, SubSeq(HelloWorld, 1, 6), SubSeq(HelloWorld, 7, 11), Msg(53)}

\* 32-byte values hashed pairwise by hash32_concat.
Vals32 == {Zeros(HASH_LEN), [i \in 1..HASH_LEN |-> 1], Msg(HASH_LEN)}

(***************************************************************************)
(* Sha256Context for ring::digest::Context      (lib.rs)                   *)
(* Sha256Context for sha2::Sha256               (sha2_impl.rs)             *)
(***************************************************************************)
Ring_new == LibNew

Ring_update(c, bytes) == LibUpdate(c, bytes)

\* output.copy_from_slice(..) panics unless the lengths agree.
CopyFromSlice(dst, src) == IF Len(dst) = Len(src) THEN src ELSE <<"panic">>

Ring_finalize(c) == CopyFromSlice(Zeros(HASH_LEN), LibFinish(c))

Sha2_new == LibNew

Sha2_update(c, bytes) == LibUpdate(c, bytes)

Sha2_finalize(c) == LibFinish(c)

(***************************************************************************)
(* Sha256 for RingImpl and for Sha2CrateImpl                               *)
(***************************************************************************)
RingImpl_hash(input) == LibDigest(input)

\* Faulty variant: the context is finalized without being fed the input.
RingImpl_hash_fixed_NoUpdate(input) == Ring_finalize(Ring_new)

RingImpl_hash_fixed(input) == Ring_finalize(Ring_update(Ring_new, input))

Sha2CrateImpl_hash(input) == LibDigest(input)

Sha2CrateImpl_hash_fixed(input) == LibDigest(input)

(***************************************************************************)
(* The cpufeatures latch x86_sha_extensions and have_sha_extensions()      *)
(***************************************************************************)
\* __detect_target_features!: what CPUID reports on this CPU.
Detect(cpu) == cpu

\* Faulty variant: the latch records the opposite of what was detected.
StoreValue_Inverted(res) == IF res THEN 0 ELSE 1

\* Faulty variant: the store leaves the latch uninitialised.
StoreValue_Lost(res) == UNINIT

\* STORAGE.store(res as u8, Relaxed)
StoreValue(res) == IF res THEN 1 ELSE 0

\* val == 1
Cached(val) == val = 1

\* One whole call of have_sha_extensions() with nothing interleaved.
have_sha_extensions(target, storage, cpu) ==
  IF ~target THEN [ret |-> FALSE, storage |-> storage, inspected |-> 0]
  ELSE IF storage = UNINIT
       THEN [ret |-> Detect(cpu), storage |-> StoreValue(Detect(cpu)), inspected |-> 1]
       ELSE [ret |-> Cached(storage), storage |-> storage, inspected |-> 0]

(***************************************************************************)
(* DynamicImpl and DynamicContext                                          *)
(***************************************************************************)
\* Faulty variant: the two arms of the capability test are exchanged.
DynamicImpl_best_Swapped(target, cap) ==
  IF target THEN (IF cap THEN "Ring" ELSE "Sha2") ELSE "Ring"

\* DynamicImpl::best() given the build target and the probe's answer.
DynamicImpl_best(target, cap) ==
  IF target THEN (IF cap THEN "Sha2" ELSE "Ring") ELSE "Ring"

DynamicImpl_hash(self, input) ==
  IF self = "Sha2" THEN Sha2CrateImpl_hash(input) ELSE RingImpl_hash(input)

DynamicImpl_hash_fixed(self, input) ==
  IF self = "Sha2" THEN Sha2CrateImpl_hash_fixed(input) ELSE RingImpl_hash_fixed(input)

DynamicContext_new(best) ==
  IF best = "Sha2" THEN [variant |-> "Sha2", inner |-> Sha2_new]
  ELSE [variant |-> "Ring", inner |-> Ring_new]

\* Faulty variant: every update starts from a fresh inner context.
DynamicContext_update_Fresh(self, bytes) ==
  IF self.variant = "Sha2"
  THEN [variant |-> "Sha2", inner |-> Sha2_update(Sha2_new, bytes)]
  ELSE [variant |-> "Ring", inner |-> Ring_update(Ring_new, bytes)]

\* Faulty variant: every update is forwarded to the ring backend.
DynamicContext_update_ToRing(self, bytes) ==
  [variant |-> "Ring", inner |-> Ring_update(self.inner, bytes)]

DynamicContext_update(self, bytes) ==
  IF self.variant = "Sha2"
  THEN [variant |-> "Sha2", inner |-> Sha2_update(self.inner, bytes)]
  ELSE [variant |-> "Ring", inner |-> Ring_update(self.inner, bytes)]

DynamicContext_finalize(self) ==
  IF self.variant = "Sha2" THEN Sha2_finalize(self.inner) ELSE Ring_finalize(self.inner)

\* Faulty variant: the two halves are fed in the opposite order.
hash32_concat_Swapped(best, h1, h2) ==
  DynamicContext_finalize(
    DynamicContext_update(DynamicContext_update(DynamicContext_new(best), h2), h1))

\* hash32_concat with the backend DynamicContext::new() selected.
hash32_concat(best, h1, h2) ==
  DynamicContext_finalize(
    DynamicContext_update(DynamicContext_update(DynamicContext_new(best), h1), h2))

\* DynamicImpl::best() as one call: the probe, then the choice of variant.
best(target, storage, cpu) ==
  LET p == have_sha_extensions(target, storage, cpu)
  IN  [variant   |-> DynamicImpl_best(target, p.ret),
       cap       |-> p.ret,
       storage   |-> p.storage,
       inspected |-> p.inspected,
       probes    |-> 1]

\* hash(input) and hash_fixed(input): DynamicImpl::best() and then its method.
hash(target, storage, cpu, input) ==
  DynamicImpl_hash(best(target, storage, cpu).variant, input)

hash_fixed(target, storage, cpu, input) ==
  DynamicImpl_hash_fixed(best(target, storage, cpu).variant, input)

(***************************************************************************)
(* ZERO_HASHES: the closure given to LazyLock::new, LazyLock's forcing,    *)
(* and the indexing of the Vec behind it                                   *)
(***************************************************************************)
\* Faulty variant: one entry too many is allocated.
ZeroHashesAlloc_Extra == [i \in 1..(ZERO_HASHES_MAX_INDEX + 2) |-> Zeros(HASH_LEN)]

\* vec![[0; HASH_LEN]; ZERO_HASHES_MAX_INDEX + 1]
ZeroHashesAlloc == [i \in 1..(ZERO_HASHES_MAX_INDEX + 1) |-> Zeros(HASH_LEN)]

\* Faulty variant: hashes[i + 1] = hash32_concat(&hashes[i], &hashes[i + 1]).
ZeroHashesStep_Mixed(hs, i, b) ==
  [hs EXCEPT ![i + 2] = hash32_concat(b, hs[i + 1], hs[i + 2])]

\* hashes[i + 1] = hash32_concat(&hashes[i], &hashes[i]); sequences count from 1.
ZeroHashesStep(hs, i, b) ==
  [hs EXCEPT ![i + 2] = hash32_concat(b, hs[i + 1], hs[i + 1])]

\* Faulty variant: a thread that finds the Once running runs the closure too.
LazyForce_NoWait(state) ==
  CASE state = "Complete"   -> "ready"
    [] state = "Incomplete" -> "build"
    [] state = "Running"    -> "build"

\* Where a thread forcing the LazyLock goes, by the state of its Once.
LazyForce(state) ==
  CASE state = "Complete"   -> "ready"
    [] state = "Incomplete" -> "build"
    [] state = "Running"    -> "wait"

\* Index<usize> for Vec: the entry, or a panic when i is out of bounds.
VecIndex(v, i) ==
  IF i < Len(v) THEN [kind |-> "ok", idx |-> i, val |-> v[i + 1]]
  ELSE [kind |-> "panic", idx |-> i, val |-> <<>>]

(***************************************************************************)
(* State                                                                   *)
(***************************************************************************)
VARIABLES
  target_x86_64,  \* cfg(target_arch = "x86_64") of the build
  cpu_sha,        \* whether the CPU has sha, sse2, ssse3 and sse4.1
  STORAGE,        \* the latch's AtomicU8
  inspections,    \* how many times the CPU features were detected
  ppc,            \* per thread: where its have_sha_extensions() call stands
  pval,           \* per thread: the value it loaded from STORAGE
  pres,           \* per thread: what its detection found
  pcalls,         \* per thread: calls of have_sha_extensions() completed
  pinsp,          \* per thread: detections it performed
  rets,           \* every value have_sha_extensions() has returned
  op,             \* the call that has just returned: <<>> or <<record>>
  ctx,            \* the live DynamicContext: <<>> or <<context>>
  fed,            \* the bytes fed to ctx so far, concatenated
  nupd,           \* the number of update calls on ctx
  chosen,         \* what DynamicContext::new() selected for ctx
  ctxProbes,      \* probe calls made on behalf of ctx
  once,           \* ZERO_HASHES: the state of the LazyLock's Once
  table,          \* ZERO_HASHES: the value, <<>> until initialised
  hashes,         \* the closure's local `hashes`: <<>> or <<vec>>
  bi,             \* the closure's loop variable i
  builds,         \* how many times the closure was entered
  zpc,            \* per thread: where its access to ZERO_HASHES stands
  zlast           \* what the latest access to ZERO_HASHES produced: <<>> or <<record>>

platform == <<target_x86_64, cpu_sha>>

latch == <<STORAGE, inspections>>

probeVars == <<ppc, pval, pres, pcalls, pinsp, rets>>

hashVars == <<op, ctx, fed, nupd, chosen, ctxProbes>>

zeroVars == <<once, table, hashes, bi, builds, zpc, zlast>>

vars == <<platform, latch, probeVars, hashVars, zeroVars>>

NoChoice == [variant |-> "None", cap |-> FALSE]

Init ==
  /\ target_x86_64 \in BOOLEAN
  /\ cpu_sha \in BOOLEAN
  /\ STORAGE = UNINIT
  /\ inspections = 0
  /\ ppc = [t \in Threads |-> "idle"]
  /\ pval = [t \in Threads |-> UNINIT]
  /\ pres = [t \in Threads |-> FALSE]
  /\ pcalls = [t \in Threads |-> 0]
  /\ pinsp = [t \in Threads |-> 0]
  /\ rets = {}
  /\ op = <<>>
  /\ ctx = <<>>
  /\ fed = <<>>
  /\ nupd = 0
  /\ chosen = NoChoice
  /\ ctxProbes = 0
  /\ once = "Incomplete"
  /\ table = <<>>
  /\ hashes = <<>>
  /\ bi = 0
  /\ builds = 0
  /\ zpc = [t \in Threads |-> "idle"]
  /\ zlast = <<>>

(***************************************************************************)
(* have_sha_extensions() step by step, called from several threads         *)
(***************************************************************************)
\* #[cfg(not(target_arch = "x86_64"))] return false;
ProbeNonX86(t) ==
  /\ ~target_x86_64
  /\ ppc[t] = "idle"
  /\ pcalls[t] < MaxCalls
  /\ rets' = rets \cup {FALSE}
  /\ pcalls' = [pcalls EXCEPT ![t] = @ + 1]
  /\ UNCHANGED <<platform, latch, ppc, pval, pres, pinsp, hashVars, zeroVars>>

\* let val = STORAGE.load(Relaxed); if val == UNINIT { init_inner() } else { val == 1 }
ProbeLoad(t) ==
  /\ target_x86_64
  /\ ppc[t] = "idle"
  /\ pcalls[t] < MaxCalls
  /\ pval' = [pval EXCEPT ![t] = STORAGE]
  /\ IF STORAGE = UNINIT
     THEN /\ ppc' = [ppc EXCEPT ![t] = "init"]
          /\ UNCHANGED <<rets, pcalls>>
     ELSE /\ rets' = rets \cup {Cached(STORAGE)}
          /\ pcalls' = [pcalls EXCEPT ![t] = @ + 1]
          /\ UNCHANGED ppc
  /\ UNCHANGED <<platform, latch, pres, pinsp, hashVars, zeroVars>>

\* init_inner: let res = __detect_target_features!(..);
ProbeDetect(t) ==
  /\ ppc[t] = "init"
  /\ pres' = [pres EXCEPT ![t] = Detect(cpu_sha)]
  /\ inspections' = inspections + 1
  /\ pinsp' = [pinsp EXCEPT ![t] = @ + 1]
  /\ ppc' = [ppc EXCEPT ![t] = "store"]
  /\ UNCHANGED <<platform, STORAGE, pval, pcalls, rets, hashVars, zeroVars>>

\* init_inner: STORAGE.store(res as u8, Relaxed); res
ProbeStore(t) ==
  /\ ppc[t] = "store"
  /\ STORAGE' = StoreValue(pres[t])
  /\ rets' = rets \cup {pres[t]}
  /\ pcalls' = [pcalls EXCEPT ![t] = @ + 1]
  /\ ppc' = [ppc EXCEPT ![t] = "idle"]
  /\ UNCHANGED <<platform, inspections, pval, pres, pinsp, hashVars, zeroVars>>

(***************************************************************************)
(* The hashing API, called by one thread                                   *)
(***************************************************************************)
Idle == op = <<>> /\ ctx = <<>>

\* What a call through DynamicImpl::best() leaves behind.
Dispatched(kind, input, out, b) ==
  /\ op' = <<[kind |-> kind, input |-> input, out |-> out,
              backend |-> b.variant, selected |-> b.variant, cap |-> b.cap,
              probes |-> b.probes, updates |-> 0]>>
  /\ STORAGE' = b.storage
  /\ inspections' = inspections + b.inspected
  /\ UNCHANGED <<platform, probeVars, ctx, fed, nupd, chosen, ctxProbes, zeroVars>>

\* hash(input)
Hash(input) ==
  /\ Idle
  /\ LET b == best(target_x86_64, STORAGE, cpu_sha)
     IN  Dispatched("hash", input, hash(target_x86_64, STORAGE, cpu_sha, input), b)

\* hash_fixed(input)
HashFixed(input) ==
  /\ Idle
  /\ LET b == best(target_x86_64, STORAGE, cpu_sha)
     IN  Dispatched("hash_fixed", input, hash_fixed(target_x86_64, STORAGE, cpu_sha, input), b)

\* hash32_concat(h1, h2)
Hash32Concat(h1, h2) ==
  /\ Idle
  /\ LET b == best(target_x86_64, STORAGE, cpu_sha)
     IN  Dispatched("hash32_concat", h1 \o h2, hash32_concat(b.variant, h1, h2), b)

\* What a call made on a backend directly leaves behind.
Direct(kind, backend, input, out) ==
  /\ op' = <<[kind |-> kind, input |-> input, out |-> out,
              backend |-> backend, selected |-> backend, cap |-> FALSE,
              probes |-> 0, updates |-> 0]>>
  /\ UNCHANGED <<platform, latch, probeVars, ctx, fed, nupd, chosen, ctxProbes, zeroVars>>

\* RingImpl.hash(input), RingImpl.hash_fixed(input)
RingCall(input) ==
  /\ Idle
  /\ \/ Direct("RingImpl.hash", "Ring", input, RingImpl_hash(input))
     \/ Direct("RingImpl.hash_fixed", "Ring", input, RingImpl_hash_fixed(input))

\* Sha2CrateImpl.hash(input), Sha2CrateImpl.hash_fixed(input): x86_64 builds only
Sha2Call(input) ==
  /\ Idle
  /\ target_x86_64
  /\ \/ Direct("Sha2CrateImpl.hash", "Sha2", input, Sha2CrateImpl_hash(input))
     \/ Direct("Sha2CrateImpl.hash_fixed", "Sha2", input, Sha2CrateImpl_hash_fixed(input))

\* DynamicContext::new()
CtxNew ==
  /\ Idle
  /\ nupd = 0
  /\ chosen = NoChoice
  /\ LET b == best(target_x86_64, STORAGE, cpu_sha)
     IN  /\ ctx' = <<DynamicContext_new(b.variant)>>
         /\ chosen' = [variant |-> b.variant, cap |-> b.cap]
         /\ ctxProbes' = b.probes
         /\ STORAGE' = b.storage
         /\ inspections' = inspections + b.inspected
  /\ fed' = <<>>
  /\ UNCHANGED <<platform, probeVars, op, nupd, zeroVars>>

\* ctx.update(chunk)
CtxUpdate(chunk) ==
  /\ ctx # <<>>
  /\ nupd < MaxChunks
  /\ ctx' = <<DynamicContext_update(ctx[1], chunk)>>
  /\ fed' = fed \o chunk
  /\ nupd' = nupd + 1
  /\ UNCHANGED <<platform, latch, probeVars, op, chosen, ctxProbes, zeroVars>>

\* ctx.finalize(): the context is consumed
CtxFinalize ==
  /\ ctx # <<>>
  /\ op' = <<[kind |-> "stream", input |-> fed, out |-> DynamicContext_finalize(ctx[1]),
              backend |-> ctx[1].variant, selected |-> chosen.variant, cap |-> chosen.cap,
              probes |-> ctxProbes, updates |-> nupd]>>
  /\ ctx' = <<>>
  /\ fed' = <<>>
  /\ nupd' = 0
  /\ chosen' = NoChoice
  /\ ctxProbes' = 0
  /\ UNCHANGED <<platform, latch, probeVars, zeroVars>>

\* The caller takes the result.
Return ==
  /\ op # <<>>
  /\ op' = <<>>
  /\ UNCHANGED <<platform, latch, probeVars, ctx, fed, nupd, chosen, ctxProbes, zeroVars>>

(***************************************************************************)
(* ZERO_HASHES, accessed from several threads                              *)
(***************************************************************************)
\* Deref of the LazyLock: LazyLock::force, Once::call_once.
ZDeref(t) ==
  /\ zpc[t] = "idle"
  /\ zpc' = [zpc EXCEPT ![t] = LazyForce(once)]
  /\ once' = IF once = "Incomplete" THEN "Running" ELSE once
  /\ builds' = IF LazyForce(once) = "build" THEN builds + 1 ELSE builds
  /\ UNCHANGED <<platform, latch, probeVars, hashVars, table, hashes, bi, zlast>>

\* let mut hashes = vec![[0; HASH_LEN]; ZERO_HASHES_MAX_INDEX + 1];
ZAlloc(t) ==
  /\ zpc[t] = "build"
  /\ hashes = <<>>
  /\ hashes' = <<ZeroHashesAlloc>>
  /\ bi' = 0
  /\ UNCHANGED <<platform, latch, probeVars, hashVars, once, table, builds, zpc, zlast>>

\* One iteration of for i in 0..ZERO_HASHES_MAX_INDEX.
ZStep(t) ==
  /\ zpc[t] = "build"
  /\ hashes # <<>>
  /\ bi < ZERO_HASHES_MAX_INDEX
  /\ LET b == best(target_x86_64, STORAGE, cpu_sha)
     IN  /\ hashes' = <<ZeroHashesStep(hashes[1], bi, b.variant)>>
         /\ STORAGE' = b.storage
         /\ inspections' = inspections + b.inspected
  /\ bi' = bi + 1
  /\ UNCHANGED <<platform, probeVars, hashVars, once, table, builds, zpc, zlast>>

\* The closure returns hashes; the Once completes and the value is published.
ZFinish(t) ==
  /\ zpc[t] = "build"
  /\ hashes # <<>>
  /\ bi = ZERO_HASHES_MAX_INDEX
  /\ table' = hashes
  /\ hashes' = <<>>
  /\ once' = "Complete"
  /\ zpc' = [zpc EXCEPT ![t] = "ready"]
  /\ UNCHANGED <<platform, latch, probeVars, hashVars, bi, builds, zlast>>

\* A thread blocked in call_once resumes when the Once has completed.
ZWake(t) ==
  /\ zpc[t] = "wait"
  /\ once = "Complete"
  /\ zpc' = [zpc EXCEPT ![t] = "ready"]
  /\ UNCHANGED <<platform, latch, probeVars, hashVars, once, table, hashes, bi, builds, zlast>>

\* ZERO_HASHES[i]: the entry is returned, or the thread panics.
ZIndex(t, i) ==
  /\ zpc[t] = "ready"
  /\ zlast' = <<VecIndex(table[1], i)>>
  /\ zpc' = [zpc EXCEPT ![t] = IF VecIndex(table[1], i).kind = "ok" THEN "idle" ELSE "panicked"]
  /\ UNCHANGED <<platform, latch, probeVars, hashVars, once, table, hashes, bi, builds>>

\* ZERO_HASHES.len()
ZLen(t) ==
  /\ zpc[t] = "ready"
  /\ zlast' = <<[kind |-> "len", idx |-> 0, val |-> Len(table[1])]>>
  /\ zpc' = [zpc EXCEPT ![t] = "idle"]
  /\ UNCHANGED <<platform, latch, probeVars, hashVars, once, table, hashes, bi, builds>>

(***************************************************************************)
(* Specifications                                                          *)
(***************************************************************************)
\* Threads calling have_sha_extensions() concurrently.
NextProbe ==
  \E t \in Threads :
    \/ ProbeNonX86(t)
    \/ ProbeLoad(t)
    \/ ProbeDetect(t)
    \/ ProbeStore(t)

SpecProbe == Init /\ [][NextProbe]_vars

\* One thread using the hashing API.
Next ==
  \/ \E input \in Inputs : Hash(input)
  \/ \E input \in Inputs : HashFixed(input)
  \/ \E h1 \in Vals32, h2 \in Vals32 : Hash32Concat(h1, h2)
  \/ \E input \in Inputs : RingCall(input)
  \/ \E input \in Inputs : Sha2Call(input)
  \/ CtxNew
  \/ \E chunk \in Chunks : CtxUpdate(chunk)
  \/ CtxFinalize
  \/ Return

Spec == Init /\ [][Next]_vars

\* Threads accessing ZERO_HASHES concurrently.
NextZero ==
  \E t \in Threads :
    \/ ZDeref(t)
    \/ ZAlloc(t)
    \/ ZStep(t)
    \/ ZFinish(t)
    \/ ZWake(t)
    \/ \E i \in 0..(ZERO_HASHES_MAX_INDEX + MaxOver) : ZIndex(t, i)
    \/ ZLen(t)

SpecZero == Init /\ [][NextZero]_vars

\* One thread building ZERO_HASHES and reading its length.
NextTable ==
  \/ ZDeref(1)
  \/ ZAlloc(1)
  \/ ZStep(1)
  \/ ZFinish(1)
  \/ ZLen(1)

SpecTable == Init /\ [][NextTable]_vars

(***************************************************************************)
(* Properties                                                              *)
(***************************************************************************)
\* The calls that hash a whole input at once.
OneShotKinds ==
  {"hash", "hash_fixed", "RingImpl.hash", "RingImpl.hash_fixed",
   "Sha2CrateImpl.hash", "Sha2CrateImpl.hash_fixed"}

\* The calls that go through DynamicImpl::best().
DispatchedKinds == {"hash", "hash_fixed", "hash32_concat", "stream"}

\* C1 - Backend equivalence.  Whatever one-shot call has just returned, on
\* the ring backend, on the sha2 backend or through DynamicImpl, its output
\* is the reference SHA-256 digest of its input (and the known digest for
\* b"hello world"); so both backends agree on every input and the result of
\* hash / hash_fixed does not depend on the variant best() returned.
BackendEquivalence ==
  (op # <<>> /\ op[1].kind \in OneShotKinds) =>
     /\ op[1].out = SHA256(op[1].input)
     /\ Len(op[1].out) = HASH_LEN
     /\ (op[1].input = HelloWorld => op[1].out = HelloWorldDigest)

\* A one-shot call on the sha2 backend, selected by best(), has returned the
\* digest of an input longer than one block.
BackendEquivalenceWitness ==
  /\ op # <<>>
  /\ op[1].kind = "hash"
  /\ op[1].backend = "Sha2"
  /\ Len(op[1].input) > 64
  /\ op[1].out = RingImpl_hash(op[1].input)

\* C2 - Streaming equivalence.  When a context made by DynamicContext::new()
\* has been fed any sequence of chunks and finalized, the output equals
\* hash_fixed of the concatenation of the chunks, however they were split.
StreamingEquivalence ==
  (op # <<>> /\ op[1].kind = "stream") =>
     op[1].out = hash_fixed(target_x86_64, STORAGE, cpu_sha, op[1].input)

\* A context fed three chunks that together fill exactly one block has been
\* finalized.
StreamingEquivalenceWitness ==
  /\ op # <<>>
  /\ op[1].kind = "stream"
  /\ op[1].updates = 3
  /\ Len(op[1].input) = 64
  /\ op[1].out = hash_fixed(target_x86_64, STORAGE, cpu_sha, op[1].input)

\* C3 - Concat equivalence.  hash32_concat(a, b) of two 32-byte values equals
\* hash_fixed of the 64-byte concatenation a ++ b.
ConcatEquivalence ==
  (op # <<>> /\ op[1].kind = "hash32_concat") =>
     /\ Len(op[1].input) = 2 * HASH_LEN
     /\ op[1].out = hash_fixed(target_x86_64, STORAGE, cpu_sha, op[1].input)

\* hash32_concat has returned for two different 32-byte halves.
ConcatEquivalenceWitness ==
  /\ op # <<>>
  /\ op[1].kind = "hash32_concat"
  /\ SubSeq(op[1].input, 1, HASH_LEN) # SubSeq(op[1].input, HASH_LEN + 1, 2 * HASH_LEN)
  /\ op[1].out = hash_fixed(target_x86_64, STORAGE, cpu_sha, op[1].input)

\* C4 - Selection safety.  A call through DynamicImpl::best() and a live
\* DynamicContext use the sha2 backend exactly when the build is x86_64 and
\* have_sha_extensions() returned true, and the ring backend otherwise; the
\* sha2 backend is never used while have_sha_extensions() answers false.
SelectionSafety ==
  /\ (op # <<>> /\ op[1].kind \in DispatchedKinds) =>
        /\ op[1].backend = "Sha2" <=> (target_x86_64 /\ op[1].cap)
        /\ op[1].backend = "Ring" <=> ~(target_x86_64 /\ op[1].cap)
        /\ op[1].cap = have_sha_extensions(target_x86_64, STORAGE, cpu_sha).ret
  /\ ctx # <<>> =>
        /\ ctx[1].variant = "Sha2" <=> (target_x86_64 /\ chosen.cap)
        /\ ctx[1].variant = "Ring" <=> ~(target_x86_64 /\ chosen.cap)
        /\ chosen.cap = have_sha_extensions(target_x86_64, STORAGE, cpu_sha).ret

\* best() has selected the sha2 backend for a call of hash_fixed.
SelectionSafetyWitness ==
  /\ op # <<>>
  /\ op[1].kind = "hash_fixed"
  /\ op[1].backend = "Sha2"
  /\ op[1].cap

\* C5 - Zero-hash table invariant.  Once ZERO_HASHES is built it has exactly
\* ZERO_HASHES_MAX_INDEX + 1 entries, entry 0 is 32 zero bytes, and every
\* entry i + 1 is hash32_concat(entry i, entry i); len() reports that length.
ZeroHashInvariant ==
  /\ table # <<>> =>
        /\ Len(table[1]) = ZERO_HASHES_MAX_INDEX + 1
        /\ table[1][1] = Zeros(HASH_LEN)
        /\ \A i \in 0..(ZERO_HASHES_MAX_INDEX - 1) :
              table[1][i + 2] =
                hash32_concat(best(target_x86_64, STORAGE, cpu_sha).variant,
                              table[1][i + 1], table[1][i + 1])
  /\ (zlast # <<>> /\ zlast[1].kind = "len") => zlast[1].val = ZERO_HASHES_MAX_INDEX + 1

\* The table has been built and its length has been read.
ZeroHashInvariantWitness ==
  /\ table # <<>>
  /\ once = "Complete"
  /\ zlast # <<>>
  /\ zlast[1].kind = "len"
  /\ table[1][2] # table[1][1]

\* What holds of ZERO_HASHES in every state, under any interleaving.
OnceInitState ==
  /\ builds <= 1
  /\ once # "Incomplete" <=> builds = 1
  /\ Cardinality({t \in Threads : zpc[t] = "build"}) <= 1
  /\ table # <<>> <=> once = "Complete"
  /\ table # <<>> => (hashes = <<>> /\ bi = ZERO_HASHES_MAX_INDEX)
  /\ \A t \in Threads : zpc[t] \in {"ready", "panicked"} => table # <<>>
  /\ zlast # <<>> => table # <<>>
  /\ (zlast # <<>> /\ zlast[1].kind = "ok") => zlast[1].val = table[1][zlast[1].idx + 1]

\* The published table is never written again.
OnceInitStep == table # <<>> => table' = table

\* C6 - Zero-hash table once-initialisation.  Under every interleaving of
\* accesses by the threads the closure is entered at most once and exactly
\* once when the table exists, a thread reads only after the table is
\* complete, every entry read is the entry of the one published table, and
\* the published table never changes.
OnceInit == []OnceInitState /\ [][OnceInitStep]_vars

\* One thread is part-way through the closure while another waits for it.
OnceInitWitness ==
  \E t, u \in Threads :
     /\ t # u
     /\ zpc[t] = "build"
     /\ zpc[u] = "wait"
     /\ bi > 0
     /\ builds = 1

\* C7 - Capability monotonicity.  All calls of have_sha_extensions(), from
\* all threads and under every interleaving, have returned the same boolean,
\* and on builds that are not x86_64 that boolean is false.
CapabilityMonotone ==
  /\ Cardinality(rets) <= 1
  /\ ~target_x86_64 => rets \subseteq {FALSE}

\* Two threads made their first calls concurrently, both detected, and all
\* calls have returned true.
CapabilityMonotoneWitness ==
  /\ target_x86_64
  /\ rets = {TRUE}
  /\ inspections = NThreads
  /\ \A t \in Threads : pcalls[t] = MaxCalls

ProbeInspectsState ==
  /\ \A t \in Threads : pinsp[t] <= 1
  /\ \A t \in Threads : ppc[t] \in {"init", "store"} => pval[t] = UNINIT
  /\ inspections <= NThreads
  /\ STORAGE # UNINIT => inspections >= 1
  /\ ~target_x86_64 => inspections = 0

\* A call that starts once the latch is initialised returns without
\* inspecting; an initialised latch keeps its value.
ProbeInspectsStep ==
  STORAGE # UNINIT =>
     /\ STORAGE' = STORAGE
     /\ \A t \in Threads :
           ppc[t] = "idle" => (ppc'[t] = "idle" /\ pinsp'[t] = pinsp[t])

IndexBounds ==
  /\ (zlast # <<>> /\ zlast[1].kind \in {"ok", "panic"}) =>
        /\ zlast[1].idx > ZERO_HASHES_MAX_INDEX <=> zlast[1].kind = "panic"
        /\ zlast[1].kind = "panic" => zlast[1].val = <<>>
        /\ zlast[1].kind = "ok" =>
              /\ zlast[1].val = table[1][zlast[1].idx + 1]
              /\ Len(zlast[1].val) = HASH_LEN
  /\ (zlast # <<>> /\ zlast[1].kind = "panic") => \E t \in Threads : zpc[t] = "panicked"
  /\ (\E t \in Threads : zpc[t] = "panicked") => zlast # <<>>

\* An access at ZERO_HASHES_MAX_INDEX + 1 has panicked.
IndexBoundsWitness ==
  /\ zlast # <<>>
  /\ zlast[1].kind = "panic"
  /\ zlast[1].idx = ZERO_HASHES_MAX_INDEX + 1
  /\ \E t \in Threads : zpc[t] = "panicked"

\* What holds of a context and of a returned call in every state.
BackendFixedState ==
  /\ ctx # <<>> =>
        /\ ctx[1].variant = chosen.variant
        /\ ctxProbes = 1
  /\ ctx = <<>> => (chosen = NoChoice /\ ctxProbes = 0)
  /\ (op # <<>> /\ op[1].kind \in DispatchedKinds) =>
        /\ op[1].probes = 1
        /\ op[1].backend = op[1].selected
        /\ op[1].selected = DynamicImpl_best(target_x86_64, op[1].cap)

\* update and finalize keep the variant and leave the probe alone.
BackendFixedStep ==
  ctx # <<>> =>
     /\ UNCHANGED <<STORAGE, inspections>>
     /\ ctx' # <<>> => (ctx'[1].variant = ctx[1].variant /\ ctxProbes' = ctxProbes)
     /\ ctx' = <<>> => (op' # <<>> /\ op'[1].backend = ctx[1].variant)

\* C10 - Backend fixed per context.  The backend is selected once, in
\* DynamicContext::new(); every update and the finalize go to the inner
\* context of that backend, never change the variant and never consult the
\* probe; every call of hash, hash_fixed and hash32_concat selects once.
BackendFixed == []BackendFixedState /\ [][BackendFixedStep]_vars

\* A context on the sha2 backend has taken two updates.
BackendFixedWitness ==
  /\ ctx # <<>>
  /\ ctx[1].variant = "Sha2"
  /\ nupd >= 2
  /\ Len(fed) > 0

====
